---- MODULE Spec2Model ----
(***************************************************************************)
(* Model of the cgroups-explorer crate (src/src/explorer.rs): the          *)
(* ExplorerBuilder (pattern compilation at build time), the V2 iterator    *)
(* (lazy walk of the unified tree) and the V1 iterator (eager walk of one  *)
(* subtree per controller, merged through a HashSet).                      *)
(*                                                                         *)
(* A string is a sequence of one-character strings, a relative path is a   *)
(* sequence of file names, and a file name is one character.               *)
(***************************************************************************)
EXTENDS Integers, Sequences, FiniteSets, TLC

VARIABLES
    builder,    \* the ExplorerBuilder under construction (owned pattern)
    supplied,   \* history: the setters in the order their current value was supplied
    built,      \* the result of the last build() call
    explorer,   \* the Explorer the enumerations borrow (&self)
    fs,         \* the directory tree below each walked root (unchanged)
    iters       \* the iterators returned by iter_cgroups, one per slot

vars == <<builder, supplied, built, explorer, fs, iters>>

----------------------------------------------------------------------------
(* Bounds *)

\* longest pattern list handed to include() / include_regex()
MaxPatterns == 2
\* most nodes in which the trees of two controllers differ
MaxDiff == 1

----------------------------------------------------------------------------
(* Pattern strings and the two pattern engines *)

GlobA == <<"a", "/", "*">>
GlobX == <<"x">>
GlobBad0 == <<"[">>
GlobBad1 == <<"a", "[">>
GlobPool == {GlobA, GlobX, GlobBad0, GlobBad1}

RegexA == <<"^", "a">>
RegexB == <<"b", "$">>
RegexBad0 == <<"(">>
RegexBad1 == <<"a", "(">>
RegexPool == {RegexA, RegexB, RegexBad0, RegexBad1}

Min(S) == CHOOSE m \in S : \A n \in S : m <= n

\* glob::Pattern::new on the alphabet {letters, /, *, ?, [}: an opening
\* bracket that is never closed is an "invalid range pattern" error at the
\* (0-based) position of the bracket; the other characters become tokens.
GlobCompile(s) ==
    LET bad == {i \in 1..Len(s) : s[i] = "["}
    IN  IF bad # {}
        THEN [ok |-> FALSE,
              err |-> [msg |-> "invalid range pattern", pos |-> Min(bad) - 1,
                       text |-> <<>>]]
        ELSE [ok |-> TRUE,
              value |-> [i \in 1..Len(s) |->
                            IF s[i] = "*" THEN <<"AnySequence">>
                            ELSE IF s[i] = "?" THEN <<"AnyChar">>
                            ELSE <<"Char", s[i]>>]]

\* regex::Regex::new on the alphabet {letters, /, ^, $, (}: an opening
\* parenthesis that is never closed is an "unclosed group" error whose
\* message quotes the pattern.
RegexCompile(s) ==
    IF \E i \in 1..Len(s) : s[i] = "("
    THEN [ok |-> FALSE,
          err |-> [msg |-> "unclosed group",
                   pos |-> Min({i \in 1..Len(s) : s[i] = "("}) - 1, text |-> s]]
    ELSE [ok |-> TRUE, value |-> s]

RECURSIVE GlobMatchesFrom(_, _, _, _)
GlobMatchesFrom(toks, i, str, j) ==
    IF i > Len(toks) THEN j = Len(str) + 1
    ELSE IF toks[i][1] = "AnySequence"
         THEN \E k \in j..(Len(str) + 1) : GlobMatchesFrom(toks, i + 1, str, k)
    ELSE IF toks[i][1] = "AnyChar"
         THEN j <= Len(str) /\ GlobMatchesFrom(toks, i + 1, str, j + 1)
    ELSE j <= Len(str) /\ str[j] = toks[i][2]
         /\ GlobMatchesFrom(toks, i + 1, str, j + 1)

\* glob::Pattern::matches: the whole string, default options (a wildcard
\* also matches the separator)
GlobMatches(toks, str) == GlobMatchesFrom(toks, 1, str, 1)

RECURSIVE RegexMatchAt(_, _, _, _)
RegexMatchAt(re, i, str, j) ==
    IF i > Len(re) THEN TRUE
    ELSE IF re[i] = "^" THEN j = 1 /\ RegexMatchAt(re, i + 1, str, j)
    ELSE IF re[i] = "$" THEN j = Len(str) + 1 /\ RegexMatchAt(re, i + 1, str, j)
    ELSE j <= Len(str) /\ str[j] = re[i] /\ RegexMatchAt(re, i + 1, str, j + 1)

\* regex::Regex::is_match: an unanchored search
RegexIsMatch(re, str) == \E j \in 1..(Len(str) + 1) : RegexMatchAt(re, 1, str, j)

\* Path::to_string_lossy of a relative path: the names joined by "/"
RECURSIVE PathStr(_)
PathStr(p) ==
    IF Len(p) = 0 THEN <<>>
    ELSE IF Len(p) = 1 THEN <<p[1]>>
    ELSE <<p[1], "/">> \o PathStr(Tail(p))

\* the relative paths a tree may hold, and the root itself (the empty path)
Universe == {<<"a">>, <<"a", "b">>, <<"x">>}
Nodes == Universe \cup {<<>>}

CompiledGlobs == {GlobCompile(s).value : s \in {t \in GlobPool : GlobCompile(t).ok}}
CompiledRegexes ==
    {RegexCompile(s).value : s \in {t \in RegexPool : RegexCompile(t).ok}}

\* pattern.matches(&path_str), by compiled glob and relative path
pattern_matches ==
    [g \in CompiledGlobs, p \in Nodes |-> GlobMatches(g, PathStr(p))]

\* pattern.is_match(&path_str), by compiled regex and relative path
pattern_is_match ==
    [r \in CompiledRegexes, p \in Nodes |-> RegexIsMatch(r, PathStr(p))]

path_matches_include_noempty(include, path) ==
    \E k \in 1..Len(include) : pattern_matches[include[k], path]

path_matches_include(include, path) ==
    IF Len(include) = 0 THEN TRUE
    ELSE \E k \in 1..Len(include) : pattern_matches[include[k], path]

path_matches_include_regex(include, path) ==
    IF Len(include) = 0 THEN TRUE
    ELSE \E k \in 1..Len(include) : pattern_is_match[include[k], path]

----------------------------------------------------------------------------
(* The builder *)

NoError == [kind |-> "none", msg |-> "", pos |-> 0, text |-> <<>>]

\* ExplorerBuilderError::ValidationError(e.to_string())
ValidationError(e) ==
    [kind |-> "ValidationError", msg |-> e.msg, pos |-> e.pos, text |-> e.text]

\* collect() of the compiled patterns into a Result: the first Err in list
\* order, or the vector of the compiled patterns
CollectResult(rs) ==
    LET bad == {i \in 1..Len(rs) : ~rs[i].ok}
    IN  IF bad # {}
        THEN [ok |-> FALSE, err |-> ValidationError(rs[Min(bad)].err)]
        ELSE [ok |-> TRUE, value |-> [i \in 1..Len(rs) |-> rs[i].value]]

Max(S) == CHOOSE m \in S : \A n \in S : m >= n

parse_include_last(include) ==
    LET rs  == [i \in 1..Len(include) |-> GlobCompile(include[i])]
        bad == {i \in 1..Len(rs) : ~rs[i].ok}
    IN  IF bad # {}
        THEN [ok |-> FALSE, err |-> ValidationError(rs[Max(bad)].err)]
        ELSE CollectResult(rs)

parse_include(include) ==
    IF Len(include) = 0 THEN [ok |-> TRUE, value |-> <<>>]
    ELSE CollectResult([i \in 1..Len(include) |-> GlobCompile(include[i])])

parse_include_regex(include) ==
    IF Len(include) = 0 THEN [ok |-> TRUE, value |-> <<>>]
    ELSE CollectResult([i \in 1..Len(include) |-> RegexCompile(include[i])])

NoBuilder == [hierarchy |-> "unset", include |-> <<>>, include_regex |-> <<>>]
NoExplorer == [hierarchy |-> "none", include |-> <<>>, include_regex |-> <<>>]
NotBuilt == [status |-> "none", err |-> NoError, from |-> NoBuilder]

\* ExplorerBuilder::build as derived: the fields are built in declaration
\* order (hierarchy, include, include_regex), each `?` returning early
Build(b) ==
    LET g == parse_include(b.include)
        r == parse_include_regex(b.include_regex)
    IN  IF ~g.ok THEN [status |-> "Err", err |-> g.err, value |-> NoExplorer]
        ELSE IF ~r.ok THEN [status |-> "Err", err |-> r.err, value |-> NoExplorer]
        ELSE [status |-> "Ok", err |-> NoError,
              value |-> [hierarchy |-> b.hierarchy, include |-> g.value,
                         include_regex |-> r.value]]

SeqsUpTo(S, n) == UNION {[1..k -> S] : k \in 0..n}

\* Explorer::v1()
V1New ==
    /\ builder' = [NoBuilder EXCEPT !.hierarchy = "V1"]
    /\ supplied' = <<>>
    /\ built' = NotBuilt
    /\ explorer' = NoExplorer
    /\ UNCHANGED <<fs, iters>>

\* Explorer::v2()
V2New ==
    /\ builder' = [NoBuilder EXCEPT !.hierarchy = "V2"]
    /\ supplied' = <<>>
    /\ built' = NotBuilt
    /\ explorer' = NoExplorer
    /\ UNCHANGED <<fs, iters>>

\* Explorer::detect_version(): is_cgroup2_unified_mode() is read from the
\* system
DetectVersion ==
    /\ \E unified \in BOOLEAN :
          builder' = [NoBuilder EXCEPT !.hierarchy = IF unified THEN "V2" ELSE "V1"]
    /\ supplied' = <<>>
    /\ built' = NotBuilt
    /\ explorer' = NoExplorer
    /\ UNCHANGED <<fs, iters>>

Resupply(order, name) == Append(SelectSeq(order, LAMBDA n : n # name), name)

\* ExplorerBuilder::include(value): the derived setter replaces the vector
Include ==
    /\ builder.hierarchy # "unset"
    /\ \E value \in SeqsUpTo(GlobPool, MaxPatterns) :
          builder' = [builder EXCEPT !.include = value]
    /\ supplied' = Resupply(supplied, "include")
    /\ UNCHANGED <<built, explorer, fs, iters>>

\* ExplorerBuilder::include_regex(value)
IncludeRegex ==
    /\ builder.hierarchy # "unset"
    /\ \E value \in SeqsUpTo(RegexPool, MaxPatterns) :
          builder' = [builder EXCEPT !.include_regex = value]
    /\ supplied' = Resupply(supplied, "include_regex")
    /\ UNCHANGED <<built, explorer, fs, iters>>

\* ExplorerBuilder::build(self): consumes the builder
BuildExplorer ==
    /\ builder.hierarchy # "unset"
    /\ LET res == Build(builder)
       IN  /\ built' = [status |-> res.status, err |-> res.err, from |-> builder]
           /\ explorer' = res.value
    /\ builder' = NoBuilder
    /\ UNCHANGED <<supplied, fs, iters>>

----------------------------------------------------------------------------
(* The directory trees and walkdir *)

\* byte order of the file names
CharOrd == [c \in {"a", "b", "x"} |-> IF c = "a" THEN 1 ELSE IF c = "b" THEN 2 ELSE 3]

Parent(p) == SubSeq(p, 1, Len(p) - 1)

\* "dir": a readable directory; "noperm": a directory whose read_dir fails;
\* "file": anything that is not a directory; "absent": no such entry
Kinds == {"dir", "noperm", "file", "absent"}

\* the walked root is a readable directory or is missing (an unreadable root
\* gives the same walk as a missing one: a single error)
Trees ==
    {t \in [Nodes -> Kinds] :
        /\ t[<<>>] \in {"dir", "absent"}
        /\ \A p \in Universe : t[p] # "absent" => t[Parent(p)] = "dir"}

\* the V1 controllers (hierarchy.subsystems()), in order, and the walked
\* roots: "unified" is hierarchy.root() of V2, a controller name stands for
\* base_path.join(name)
Subsystems == <<"cpu", "memory">>
SubsystemNames == {Subsystems[k] : k \in 1..Len(Subsystems)}
Roots == {"unified"} \cup SubsystemNames

MissingTree == [p \in Nodes |-> "absent"]

Differ(t, u) == Cardinality({p \in Nodes : t[p] # u[p]})

OkEntry(p, isdir) == [ok |-> TRUE, path |-> p, is_dir |-> isdir]
ErrEntry(p) == [ok |-> FALSE, path |-> p, is_dir |-> FALSE]

RECURSIVE SortDesc(_)
SortDesc(names) ==
    IF names = {} THEN <<>>
    ELSE LET m == CHOOSE n \in names : \A o \in names : CharOrd[n] >= CharOrd[o]
         IN  <<m>> \o SortDesc(names \ {m})

\* WalkDir::sort_by_file_name: the entries of one directory by name
RECURSIVE SortByFileName(_)
SortByFileName(names) ==
    IF names = {} THEN <<>>
    ELSE LET m == CHOOSE n \in names : \A o \in names : CharOrd[n] <= CharOrd[o]
         IN  <<m>> \o SortByFileName(names \ {m})

ChildNames(t, p) ==
    {q[Len(q)] : q \in {u \in Universe : Parent(u) = p /\ t[u] # "absent"}}

\* walkdir::IntoIter for an unchanged tree: the entries it returns, in
\* order. A directory is returned before its contents; a directory whose
\* read_dir fails is returned, then an error, and the walk goes on with its
\* siblings; a missing root is one error.
RECURSIVE WalkEntry(_, _)
RECURSIVE WalkList(_, _, _)
WalkEntry(t, p) ==
    IF t[p] = "absent" THEN <<ErrEntry(p)>>
    ELSE IF t[p] = "file" THEN <<OkEntry(p, FALSE)>>
    ELSE IF t[p] = "noperm" THEN <<OkEntry(p, TRUE), ErrEntry(p)>>
    ELSE <<OkEntry(p, TRUE)>> \o WalkList(t, p, SortByFileName(ChildNames(t, p)))
WalkList(t, p, names) ==
    IF Len(names) = 0 THEN <<>>
    ELSE WalkEntry(t, Append(p, Head(names))) \o WalkList(t, p, Tail(names))

\* WalkDir::new(root).min_depth(d).sort_by_file_name().into_iter(): entries
\* above min_depth are skipped, errors are not
WalkDir(t, min_depth) ==
    SelectSeq(WalkEntry(t, <<>>), LAMBDA e : ~e.ok \/ Len(e.path) >= min_depth)

MinDepth == 1

\* the walker that iter_cgroups_v2 and iter_cgroups_v1 create over a root,
\* by the tree below that root
Walker == [t \in Trees |-> WalkDir(t, MinDepth)]

----------------------------------------------------------------------------
(* The iterators *)

SkipEntryNoDirCheck(e) == Len(e.path) = 0

\* lines 158-166: a non-directory and the root itself are skipped
\* (strip_prefix of a walked entry by the walked root never fails)
SkipEntry(e) == ~e.is_dir \/ Len(e.path) = 0

\* the filter of CgroupsV2Iterator::next
V2Accepts(ex, p) ==
    ~(~path_matches_include(ex.include, p))
    /\ ~(~path_matches_include_regex(ex.include_regex, p))

\* should_include of iter_cgroups_v1
V1Accepts(ex, p) ==
    path_matches_include(ex.include, p)
    \/ path_matches_include_regex(ex.include_regex, p)

EmptySet == [p \in Nodes |-> 0]

HashSetInsertDup(set, p) == [set EXCEPT ![p] = set[p] + 1]

\* HashSet::insert: the number of copies held of each path is 0 or 1
HashSetInsert(set, p) == IF set[p] > 0 THEN set ELSE [set EXCEPT ![p] = 1]

Elems(set) == {p \in Nodes : set[p] > 0}

NoIter ==
    [kind |-> "none", pos |-> 0, discovered |-> EmptySet, yielded |-> <<>>,
     count |-> EmptySet,
     last |-> "init", hitErr |-> FALSE,
     contrib |-> [s \in SubsystemNames |-> {}]]

Iters == {1, 2}

\* Explorer::iter_cgroups_v2: a fresh walker over hierarchy.root()
iter_cgroups_v2(ex) == [NoIter EXCEPT !.kind = "v2"]

V2Stream == Walker[fs["unified"]]

\* CgroupsV2Iterator::next: the loop over self.walker.next(), from walker
\* position pos
RECURSIVE V2Next(_, _, _)
V2Next(ex, stream, pos) ==
    IF pos >= Len(stream) THEN [pos |-> pos, item |-> <<>>, result |-> "end"]
    ELSE LET e == stream[pos + 1]
         IN  IF ~e.ok THEN [pos |-> pos + 1, item |-> <<>>, result |-> "err"]
             ELSE IF SkipEntry(e) THEN V2Next(ex, stream, pos + 1)
             ELSE IF ~V2Accepts(ex, e.path) THEN V2Next(ex, stream, pos + 1)
             ELSE [pos |-> pos + 1, item |-> e.path, result |-> "some"]

RECURSIVE V1WalkAbort(_, _, _, _)
V1WalkAbort(ex, stream, k, set) ==
    IF k > Len(stream) THEN set
    ELSE LET e == stream[k]
         IN  IF ~e.ok THEN set
             ELSE IF SkipEntry(e) THEN V1WalkAbort(ex, stream, k + 1, set)
             ELSE IF V1Accepts(ex, e.path)
                  THEN V1WalkAbort(ex, stream, k + 1, HashSetInsert(set, e.path))
             ELSE V1WalkAbort(ex, stream, k + 1, set)

\* the inner loop of iter_cgroups_v1 (for entry in walker), from the k-th
\* entry, inserting into matching_rel_paths
RECURSIVE V1Walk(_, _, _, _)
V1Walk(ex, stream, k, set) ==
    IF k > Len(stream) THEN set
    ELSE LET e == stream[k]
         IN  IF ~e.ok THEN V1Walk(ex, stream, k + 1, set)
             ELSE IF SkipEntry(e) THEN V1Walk(ex, stream, k + 1, set)
             ELSE IF V1Accepts(ex, e.path)
                  THEN V1Walk(ex, stream, k + 1, HashSetInsert(set, e.path))
             ELSE V1Walk(ex, stream, k + 1, set)

\* the outer loop of iter_cgroups_v1 (for subsystem in subystems), from
\* the n-th controller
RECURSIVE V1Subsystems(_, _, _, _)
V1Subsystems(ex, tree, n, set) ==
    IF n > Len(Subsystems) THEN set
    ELSE V1Subsystems(ex, tree, n + 1,
                      V1Walk(ex, Walker[tree[Subsystems[n]]], 1, set))

\* Explorer::iter_cgroups_v1: all the walks are done before the iterator
\* is returned; contrib records what each controller's walk inserted
iter_cgroups_v1(ex, tree) ==
    [NoIter EXCEPT
        !.kind = "v1",
        !.discovered = V1Subsystems(ex, tree, 1, EmptySet),
        !.contrib = [s \in SubsystemNames |->
                        Elems(V1Walk(ex, Walker[tree[s]], 1, EmptySet))]]

StoreIterShared(its, i, it) ==
    [j \in Iters |-> IF j = i THEN it
                     ELSE IF its[j].kind = "v2" /\ it.kind = "v2"
                          THEN [its[j] EXCEPT !.pos = it.pos]
                          ELSE its[j]]

\* an iterator owns its walk state (walker, discovered): writing it
\* changes no other iterator
StoreIter(its, i, it) == [its EXCEPT ![i] = it]

\* Explorer::iter_cgroups(&self): the slot's previous iterator is dropped
Enumerate(i) ==
    /\ explorer.hierarchy # "none"
    /\ iters' = StoreIter(iters, i,
                    IF explorer.hierarchy = "V2" THEN iter_cgroups_v2(explorer)
                    ELSE iter_cgroups_v1(explorer, fs))
    /\ UNCHANGED <<builder, supplied, built, explorer, fs>>

\* one call of CgroupsV2Iterator::next on iterator value it
V2Pulled(ex, stream, it) ==
    LET r == V2Next(ex, stream, it.pos)
    IN  [it EXCEPT
            !.pos = r.pos,
            !.last = r.result,
            !.hitErr = @ \/ r.result = "err",
            !.yielded = IF r.result = "some" THEN Append(@, r.item) ELSE @,
            !.count = IF r.result = "some" THEN [@ EXCEPT ![r.item] = @ + 1] ELSE @]

\* CgroupsV2Iterator::next
PullV2(i) ==
    /\ iters[i].kind = "v2"
    /\ iters' = StoreIter(iters, i, V2Pulled(explorer, V2Stream, iters[i]))
    /\ UNCHANGED <<builder, supplied, built, explorer, fs>>

\* CgroupsV1Iterator::next: hash_set::IntoIter::next returns the remaining
\* paths in an unspecified order, so the history keeps only how often each
\* path was yielded (count), not the order
PullV1(i) ==
    /\ iters[i].kind = "v1"
    /\ \/ /\ Elems(iters[i].discovered) = {}
          /\ iters' = StoreIter(iters, i,
                 [iters[i] EXCEPT !.last = "end"])
       \/ \E p \in Elems(iters[i].discovered) :
             iters' = StoreIter(iters, i,
                 [iters[i] EXCEPT
                     !.discovered = [@ EXCEPT ![p] = @ - 1],
                       !.last = "some",
                     !.count = [@ EXCEPT ![p] = @ + 1]])
    /\ UNCHANGED <<builder, supplied, built, explorer, fs>>

----------------------------------------------------------------------------
(* Specifications *)

\* the pattern lists the enumerated Explorers are built from
IncludeInputs == {<<>>, <<GlobA, GlobX>>}
RegexInputs == {<<>>, <<RegexB>>, <<RegexB, RegexA>>}

\* the trees below the walked roots: the unified root for V2; for V1 one
\* tree per controller, each missing or differing from the first
\* controller's tree in at most MaxDiff nodes
FsInputs(h) ==
    IF h = "V2"
    THEN {[r \in Roots |-> IF r = "unified" THEN t ELSE MissingTree] : t \in Trees}
    ELSE {[r \in Roots |-> IF r = "unified" THEN MissingTree ELSE f[r]] :
            f \in {g \in [SubsystemNames -> Trees] :
                     \A s \in SubsystemNames :
                         \/ g[s] = MissingTree
                         \/ Differ(g[s], g[Subsystems[1]]) <= MaxDiff}}

\* Enumeration: an Explorer that build() returned, over a tree that stays
\* unchanged
Init ==
    /\ \E h \in {"V1", "V2"}, inc \in IncludeInputs, re \in RegexInputs :
          LET b == [hierarchy |-> h, include |-> inc, include_regex |-> re]
              res == Build(b)
          IN  /\ res.status = "Ok"
              /\ built = [status |-> res.status, err |-> res.err, from |-> b]
              /\ explorer = res.value
    /\ builder = NoBuilder
    /\ supplied = <<"include", "include_regex">>
    /\ fs \in FsInputs(explorer.hierarchy)
    /\ iters = [i \in Iters |-> NoIter]

Next ==
    \/ \E i \in Iters : Enumerate(i)
    \/ \E i \in Iters : PullV2(i)
    \/ \E i \in Iters : PullV1(i)

Spec == Init /\ [][Next]_vars

\* Configuration: the builder, from its constructors to build()
InitBuild ==
    /\ builder = NoBuilder
    /\ supplied = <<>>
    /\ built = NotBuilt
    /\ explorer = NoExplorer
    /\ fs = [r \in Roots |-> MissingTree]
    /\ iters = [i \in Iters |-> NoIter]

NextBuild ==
    \/ V1New
    \/ V2New
    \/ DetectVersion
    \/ Include
    \/ IncludeRegex
    \/ BuildExplorer

SpecBuild == InitBuild /\ [][NextBuild]_vars

----------------------------------------------------------------------------
(* Properties *)

\* the directories of a tree that a walk can see
AllDirs(t) == {p \in Universe : t[p] \in {"dir", "noperm"}}
\* the tree makes its walk report an error
TreeHasErr(t) == \E p \in Nodes : t[p] = "noperm" \/ (p = <<>> /\ t[p] = "absent")
V1Dirs == UNION {AllDirs(fs[s]) : s \in SubsystemNames}
WalkedDirs == IF explorer.hierarchy = "V2" THEN AllDirs(fs["unified"]) ELSE V1Dirs
NoFilter == Len(explorer.include) = 0 /\ Len(explorer.include_regex) = 0
Yielded(i) == Elems(iters[i].count)

\* a path matches at least one glob or at least one regex
PooledMatch(ex, p) ==
    \/ \E k \in 1..Len(ex.include) : GlobMatches(ex.include[k], PathStr(p))
    \/ \E k \in 1..Len(ex.include_regex) : RegexIsMatch(ex.include_regex[k], PathStr(p))

\* C1: with at least one glob or regex configured, a finished enumeration
\* (either generation) has yielded exactly the walked directories whose
\* relative path matches some glob or some regex.
C1_PooledOr ==
    \A i \in Iters :
        (iters[i].last = "end" /\ ~NoFilter)
            => Yielded(i) = {p \in WalkedDirs : PooledMatch(explorer, p)}

\* C2: with no glob and no regex, nothing is filtered out: a V2 enumeration
\* that reached the end of the walk has yielded every directory below the
\* root, and a V1 enumeration holds (and at its end has yielded) every
\* relative path of a directory under any controller.
C2_EmptyFilterMatchesAll ==
    NoFilter =>
        \A i \in Iters :
            /\ (iters[i].kind = "v2" /\ iters[i].last = "end")
                   => Yielded(i) = AllDirs(fs["unified"])
            /\ iters[i].kind = "v1"
                   => Yielded(i) \cup Elems(iters[i].discovered) = V1Dirs
            /\ (iters[i].kind = "v1" /\ iters[i].last = "end") => Yielded(i) = V1Dirs

C2_Witness ==
    /\ NoFilter
    /\ \E i \in Iters : iters[i].last = "end" /\ Yielded(i) = Universe

\* C3: a V1 enumeration never yields a relative path twice, and at its end
\* it has yielded each accepted relative path exactly once, however many
\* controllers hold a directory at that path.
C3_V1YieldsOnce ==
    \A i \in Iters :
        iters[i].kind = "v1" =>
            \A p \in Nodes :
                /\ iters[i].count[p] + iters[i].discovered[p] <= 1
                /\ iters[i].last = "end" =>
                       iters[i].count[p] =
                           IF p \in V1Dirs /\ V1Accepts(explorer, p) THEN 1 ELSE 0

C3_Witness ==
    \E i \in Iters :
        /\ iters[i].kind = "v1"
        /\ iters[i].last = "end"
        /\ \E p \in Universe :
              /\ iters[i].count[p] = 1
              /\ \A s \in SubsystemNames : p \in AllDirs(fs[s])

\* C4: every yielded (or discovered) item is a directory at depth >= 1
\* below a walked root: never the root, never a non-directory.
C4_OnlyStrictDescendantDirs ==
    \A i \in Iters :
        \A p \in Yielded(i) \cup Elems(iters[i].discovered) :
            Len(p) >= 1 /\ p \in WalkedDirs

C4_Witness ==
    \E i \in Iters :
        /\ iters[i].kind = "v2"
        /\ iters[i].last = "end"
        /\ \E p \in Universe :
              /\ fs["unified"][p] = "file"
              /\ V2Accepts(explorer, p)
              /\ ~NoFilter

----------------------------------------------------------------------------
(* Properties of build() *)

MalformedGlobs(b) == {k \in 1..Len(b.include) : ~GlobCompile(b.include[k]).ok}
MalformedRegexes(b) ==
    {k \in 1..Len(b.include_regex) : ~RegexCompile(b.include_regex[k]).ok}

\* the pattern strings in the order the caller supplied them
RECURSIVE SuppliedPatterns(_, _)
SuppliedPatterns(b, order) ==
    IF Len(order) = 0 THEN <<>>
    ELSE (IF Head(order) = "include"
          THEN [k \in 1..Len(b.include) |->
                   [kind |-> "glob", text |-> b.include[k]]]
          ELSE [k \in 1..Len(b.include_regex) |->
                   [kind |-> "regex", text |-> b.include_regex[k]]])
         \o SuppliedPatterns(b, Tail(order))

CompileError(pat) ==
    IF pat.kind = "glob" THEN GlobCompile(pat.text) ELSE RegexCompile(pat.text)

\* C5 as stated: build() succeeds only if every pattern compiles, and
\* otherwise fails with the error of the first malformed pattern in the
\* order the patterns were supplied.
C5_FirstMalformedSupplied ==
    built.status # "none" =>
        LET pats == SuppliedPatterns(built.from, supplied)
            bad  == {k \in 1..Len(pats) : ~CompileError(pats[k]).ok}
        IN  IF bad = {}
            THEN built.status = "Ok"
            ELSE /\ built.status = "Err"
                 /\ explorer = NoExplorer
                 /\ built.err = ValidationError(CompileError(pats[Min(bad)]).err)

\* C5 amended: build() returns an Explorer exactly when every glob and
\* regex compiles (the Explorer then holds the compiled patterns);
\* otherwise no Explorer is produced and the validation error is that of
\* the first malformed glob in list order or, when every glob compiles, of
\* the first malformed regex in list order.
C5_GlobsThenRegexes ==
    built.status # "none" =>
        LET b  == built.from
            mg == MalformedGlobs(b)
            mr == MalformedRegexes(b)
        IN  IF mg # {}
            THEN /\ built.status = "Err"
                 /\ explorer = NoExplorer
                 /\ built.err = ValidationError(GlobCompile(b.include[Min(mg)]).err)
            ELSE IF mr # {}
            THEN /\ built.status = "Err"
                 /\ explorer = NoExplorer
                 /\ built.err =
                        ValidationError(RegexCompile(b.include_regex[Min(mr)]).err)
            ELSE /\ built.status = "Ok"
                 /\ explorer.hierarchy = b.hierarchy
                 /\ Len(explorer.include) = Len(b.include)
                 /\ Len(explorer.include_regex) = Len(b.include_regex)
                 /\ \A k \in 1..Len(b.include) :
                       explorer.include[k] = GlobCompile(b.include[k]).value
                 /\ \A k \in 1..Len(b.include_regex) :
                       explorer.include_regex[k] = RegexCompile(b.include_regex[k]).value

C5_Witness ==
    /\ built.status = "Err"
    /\ built.from.include = <<GlobBad1, GlobBad0>>
    /\ built.from.include_regex = <<RegexA, RegexBad0>>
    /\ supplied = <<"include_regex", "include">>

----------------------------------------------------------------------------
(* Properties of the walks *)

\* C6: once a pull of a V2 enumeration has ended on a walk error, no later
\* pull on that sequence produces a candidate.
C6_NoYieldAfterError ==
    \A i \in Iters :
        iters[i].kind = "v2" => ~(iters[i].hitErr /\ iters[i].last = "some")

\* the accepted directories of one controller's tree
V1Accepted(s) == {p \in AllDirs(fs[s]) : V1Accepts(explorer, p)}

\* C7 as stated: a controller whose walk reports an error contributes no
\* candidates to the discovered set.
C7_ErrorSubsystemContributesNothing ==
    \A i \in Iters :
        iters[i].kind = "v1" =>
            \A s \in SubsystemNames :
                TreeHasErr(fs[s]) => iters[i].contrib[s] = {}

\* C7 amended: a walk error drops only the failing entry: every controller,
\* with or without an error in its walk, contributes all the accepted
\* directories its walk delivers, and the discovered set is the union of
\* the contributions.
C7_ErrorDropsOnlyFailingEntry ==
    \A i \in Iters :
        iters[i].kind = "v1" =>
            /\ \A s \in SubsystemNames : iters[i].contrib[s] = V1Accepted(s)
            /\ Yielded(i) \cup Elems(iters[i].discovered)
                   = UNION {V1Accepted(s) : s \in SubsystemNames}

C7_Witness ==
    \E i \in Iters :
        /\ iters[i].kind = "v1"
        /\ \E s \in SubsystemNames :
              /\ fs[s][<<"a">>] = "noperm"
              /\ <<"a">> \in iters[i].contrib[s]
              /\ <<"x">> \in iters[i].contrib[s]
              /\ \E o \in SubsystemNames \ {s} :
                    ~TreeHasErr(fs[o]) /\ iters[i].contrib[o] # {}

\* depth-first pre-order, the names of one directory in byte order
PreorderLess(p, q) ==
    LET n     == Min({Len(p), Len(q)})
        diffs == {k \in 1..n : p[k] # q[k]}
    IN  IF diffs = {} THEN Len(p) < Len(q)
        ELSE CharOrd[p[Min(diffs)]] < CharOrd[q[Min(diffs)]]

\* C8: a V2 enumeration yields in depth-first pre-order with the names of
\* each directory in lexicographic order, and two enumerations of the
\* unchanged tree with the same filters yield the same candidates in the
\* same order.
C8_V2Order ==
    /\ \A i \in Iters :
          iters[i].kind = "v2" =>
              \A m, n \in 1..Len(iters[i].yielded) :
                  m < n => PreorderLess(iters[i].yielded[m], iters[i].yielded[n])
    /\ \A i, j \in Iters :
          (iters[i].kind = "v2" /\ iters[j].kind = "v2") =>
              \A k \in 1..Min({Len(iters[i].yielded), Len(iters[j].yielded)}) :
                  iters[i].yielded[k] = iters[j].yielded[k]

C8_Witness ==
    /\ iters[1].yielded = <<<<"a">>, <<"a", "b">>, <<"x">>>>
    /\ Len(iters[2].yielded) >= 2

\* the states of a V2 enumeration that is pulled alone, after at most n
\* pulls
RECURSIVE SoloV2(_)
SoloV2(n) ==
    IF n = 0 THEN {iter_cgroups_v2(explorer)}
    ELSE LET S == SoloV2(n - 1)
         IN  S \cup {V2Pulled(explorer, V2Stream, it) : it \in S}

SoloConsistent ==
    LET solo2 == SoloV2(Len(V2Stream) + 1)
        solo1 == iter_cgroups_v1(explorer, fs)
    IN  \A i \in Iters :
            /\ iters[i].kind = "v2" => iters[i] \in solo2
            /\ iters[i].kind = "v1" =>
                   /\ iters[i].contrib = solo1.contrib
                   /\ \A p \in Nodes :
                         iters[i].count[p] + iters[i].discovered[p]
                             = solo1.discovered[p]

\* the iterator value is one on which next has not been called
Unpulled(it) ==
    /\ it.pos = 0
    /\ it.yielded = <<>>
    /\ it.count = EmptySet
    /\ it.last = "init"
    /\ ~it.hitErr

\* C9: each enumeration is always in a state that pulling it alone
\* produces, whatever the other enumeration did in between; every step
\* leaves the Explorer unchanged and changes the walk state of at most one
\* enumeration; and an enumeration that replaces a started one begins
\* again from the start.
C9_IndependentEnumerations ==
    /\ []SoloConsistent
    /\ [][/\ explorer' = explorer
          /\ \A i, j \in Iters :
                (i # j /\ iters'[i] # iters[i]) => iters'[j] = iters[j]
          /\ \A i \in Iters :
                (iters[i].last # "init" /\ iters'[i].last = "init")
                    => Unpulled(iters'[i])]_vars

C9_Witness ==
    /\ iters[1].kind = "v2"
    /\ iters[1].last = "end"
    /\ Len(iters[1].yielded) >= 2
    /\ iters[2].kind = "v2"
    /\ iters[2].pos = 1
    /\ Len(iters[2].yielded) = 1

\* C10: the V1 walk accepts a directory if and only if the filter of the
\* V2 iterator accepts its relative path.
C10_SameFilter ==
    \A i \in Iters :
        iters[i].kind = "v1" =>
            \A p \in V1Dirs :
                (p \in Yielded(i) \cup Elems(iters[i].discovered))
                    <=> V2Accepts(explorer, p)

====
